---- MODULE Spec2Model ----
(***************************************************************************)
(* musync: local scanner, catalog store, reconciler and upload pipeline.   *)
(* Strings are sequences of code points (one-element TLA+ strings such as  *)
(* "o"; "O_uml" stands for the precomposed U+00D6, "uml" for the combining *)
(* diaeresis U+0308, "nl" for a line feed).  Option values are sequences   *)
(* of length 0 (None) or 1 (Some).                                         *)
(***************************************************************************)
EXTENDS Integers, Sequences, FiniteSets, TLC

VARIABLES
    db,               \* sled::Db: key bytes -> bincode bytes
    last,             \* the last call made on the store API
    ret,              \* what that call returned
    stored,           \* per key, the record of the most recent successful store
    missing_albums,   \* upload_missing_albums: its input slice
    upPc,             \* upload_missing_albums: position in the function
    upIdx,            \* upload_missing_albums: index of the loop's current item
    child,            \* upload_album: the scp process spawned last, if any
    scpLog,           \* every scp invocation attempted, in order
    itemStatus,       \* per item: how its album progress bar was finished
    overall_progress, \* position of the overall progress bar
    album_progress,   \* position of the current album progress bar
    upRet,            \* upload_missing_albums: its return value
    fs,               \* the library root: top-level entry name -> entry
    scanPc,           \* process_root: idle, running or done
    taskPc,           \* per top-level entry: position of its rayon task
    taskMtime,        \* per task: process_artist_folder::last_modified
    scanFailed,       \* try_for_each has seen an Err
    scanRet,          \* process_root: its return value
    scannedOk,        \* process_root has returned Ok since the library last changed
    remote,           \* the remote server's catalog: its artists, in index order
    indexResponse,    \* fetch_artists: the response to getArtists
    cmpPc,            \* compare_with_api: position in the function
    artists,          \* compare_with_api: the artists still to process
    all_missing_album_paths, \* compare_with_api: the accumulated job list
    cmpLog,           \* per processed artist: what process_artist did
    cmpRet,           \* compare_with_api: its return value
    runPc,            \* start_sync: the stage it is in
    runRet,           \* start_sync: its return value
    cleanName,        \* an album name, as given and as clean_album_name returns it
    cleanCalls        \* how many times clean_album_name was applied to it

storeVars == <<db, last, ret, stored>>
upVars == <<missing_albums, upPc, upIdx, child, scpLog, itemStatus,
            overall_progress, album_progress, upRet>>
scanVars == <<fs, scanPc, taskPc, taskMtime, scanFailed, scanRet, scannedOk>>
cmpVars == <<remote, indexResponse, cmpPc, artists, all_missing_album_paths, cmpLog, cmpRet>>
runVars == <<runPc, runRet>>
cleanVars == <<cleanName, cleanCalls>>
vars == <<db, last, ret, stored, missing_albums, upPc, upIdx, child, scpLog, itemStatus,
          overall_progress, album_progress, upRet,
          fs, scanPc, taskPc, taskMtime, scanFailed, scanRet, scannedOk,
          remote, indexResponse, cmpPc, artists, all_missing_album_paths, cmpLog, cmpRet,
          runPc, runRet, cleanName, cleanCalls>>

\* ------------------------------------------------------------------ bounds
MaxMtime == 2
MaxStamp == 1
MaxCount == 1
MaxItems == 3
MaxRemoteCount == 2
MaxEntries == 3
MaxLen == 4
MaxCalls == 2

\* ----------------------------------------------------------------- strings
Chars == <<"/", "[", "]", " ", ".", "@", ":", "nl", "A", "a", "B", "b", "x",
           "O", "o", "O_uml", "o_uml", "uml", "K", "k", "m", "u", "h", "r",
           "M", "P", "p", "3", "t", "D">>

None == <<>>
Some(v) == <<v>>

Front(s) == SubSeq(s, 1, Len(s) - 1)
Last(s) == s[Len(s)]

RECURSIVE Concat(_)
Concat(ss) == IF ss = <<>> THEN <<>> ELSE Head(ss) \o Concat(Tail(ss))

\* str::as_bytes / String::from_utf8: code points <-> their encoding
byte(c) == CHOOSE i \in 1..Len(Chars) : Chars[i] = c
as_bytes(s) == [i \in 1..Len(s) |-> byte(s[i])]
from_utf8(b) == [i \in 1..Len(b) |-> Chars[b[i]]]

\* canonical decomposition of one code point
nfd_char(c) ==
    CASE c = "O_uml" -> <<"O", "uml">>
      [] c = "o_uml" -> <<"o", "uml">>
      [] OTHER -> <<c>>

RECURSIVE nfd(_)
nfd(s) == IF s = <<>> THEN <<>> ELSE nfd_char(Head(s)) \o nfd(Tail(s))

lower_char(c) ==
    CASE c = "O" -> "o"
      [] c = "O_uml" -> "o_uml"
      [] c = "K" -> "k"
      [] c = "A" -> "a"
      [] c = "B" -> "b"
      [] c = "M" -> "m"
      [] c = "P" -> "p"
      [] OTHER -> c

to_lowercase(s) == [i \in 1..Len(s) |-> lower_char(s[i])]

normalize_unicode(input) == to_lowercase(nfd(input))

\* first index j of a "]" in t such that no line feed precedes it (the regex's
\* "." does not match a line feed), 0 if there is none
CloseAt(t) ==
    LET J == {j \in 1..Len(t) : t[j] = "]" /\ \A i \in 1..(j - 1) : t[i] # "nl"}
    IN  IF J = {} THEN 0 ELSE CHOOSE j \in J : \A k \in J : j <= k

\* Regex::new(r"\[.*?\]").replace_all(name, "")
RECURSIVE replace_all(_)
replace_all(s) ==
    IF s = <<>> THEN <<>>
    ELSE IF Head(s) = "[" /\ CloseAt(Tail(s)) > 0
         THEN replace_all(SubSeq(Tail(s), CloseAt(Tail(s)) + 1, Len(Tail(s))))
         ELSE <<Head(s)>> \o replace_all(Tail(s))

is_whitespace(c) == c \in {" ", "nl"}

RECURSIVE trim_start(_)
trim_start(s) ==
    IF s # <<>> /\ is_whitespace(Head(s)) THEN trim_start(Tail(s)) ELSE s

RECURSIVE trim_end(_)
trim_end(s) ==
    IF s # <<>> /\ is_whitespace(Last(s)) THEN trim_end(Front(s)) ELSE s

trim(s) == trim_end(trim_start(s))

clean_album_name(name) == trim(replace_all(name))

\* the album names clean_album_name is applied to
NameChars == {"[", "]", " ", "nl", "a"}

Names == UNION {[1..n -> NameChars] : n \in 0..MaxLen}

\* name = clean_album_name(name), once more
CleanStep ==
    /\ cleanCalls < MaxCalls
    /\ cleanName' = clean_album_name(cleanName)
    /\ cleanCalls' = cleanCalls + 1
    /\ UNCHANGED <<storeVars, upVars, scanVars, cmpVars, runVars>>

\* ------------------------------------------------------------------- paths
\* the "/"-separated segments of a path string
RECURSIVE split(_, _)
split(s, cur) ==
    IF s = <<>> THEN <<cur>>
    ELSE IF Head(s) = "/" THEN <<cur>> \o split(Tail(s), <<>>)
         ELSE split(Tail(s), Append(cur, Head(s)))

\* Path::components: empty segments and "." are dropped
components(p) ==
    SelectSeq(split(p, <<>>), LAMBDA seg : seg # <<>> /\ seg # <<".">>)

\* Path::parent on the component list
parent(comps) == IF comps = <<>> THEN None ELSE Some(Front(comps))

\* Path::file_name on the component list
file_name(comps) ==
    IF comps = <<>> \/ Last(comps) = <<".", ".">> THEN None ELSE Some(Last(comps))

\* Path::join
join(base, name) == base \o <<"/">> \o name

\* ----------------------------------------------------------- catalog store
ArtistData(album_count, last_modified, albums) ==
    [album_count |-> album_count, last_modified |-> last_modified, albums |-> albums]

\* bincode of a String: its length, then its bytes
ser_string(s) == <<Len(s)>> \o as_bytes(s)

RECURSIVE ser_albums(_)
ser_albums(albums) ==
    IF albums = <<>> THEN <<>>
    ELSE ser_string(Head(albums)[1]) \o ser_string(Head(albums)[2])
         \o ser_albums(Tail(albums))

\* bincode::serialize(&ArtistData)
serialize(data) ==
    <<data.album_count, data.last_modified, Len(data.albums)>> \o ser_albums(data.albums)

\* reads one String at offset i: <<the string, the offset after it>>
de_string(b, i) == <<from_utf8(SubSeq(b, i + 1, i + b[i])), i + 1 + b[i]>>

RECURSIVE de_albums(_, _, _)
de_albums(b, i, n) ==
    IF n = 0 THEN <<>>
    ELSE LET nm == de_string(b, i)
             pt == de_string(b, nm[2])
         IN  <<<<nm[1], pt[1]>>>> \o de_albums(b, pt[2], n - 1)

\* bincode::deserialize::<ArtistData>
deserialize(b) == ArtistData(b[1], b[2], de_albums(b, 4, b[3]))

Ok(v) == [tag |-> "Ok", val |-> v]
Err(e) == [tag |-> "Err", err |-> e]
Unit == <<>>

\* the Db after store_artist_data(db, artist_name, album_count, last_modified, albums)
store_artist_data_raw(d, artist_name, album_count, last_modified, albums) ==
    LET key == as_bytes(artist_name)
        serialized == serialize(ArtistData(album_count, last_modified, albums))
    IN  [k \in DOMAIN d \cup {key} |-> IF k = key THEN serialized ELSE d[k]]

store_artist_data_patch(d, artist_name, album_count, last_modified, albums) ==
    LET key == as_bytes(normalize_unicode(artist_name))
        count == IF key \in DOMAIN d THEN deserialize(d[key]).album_count ELSE album_count
        serialized == serialize(ArtistData(count, last_modified, albums))
    IN  [k \in DOMAIN d \cup {key} |-> IF k = key THEN serialized ELSE d[k]]

store_artist_data(d, artist_name, album_count, last_modified, albums) ==
    LET key == as_bytes(normalize_unicode(artist_name))
        serialized == serialize(ArtistData(album_count, last_modified, albums))
    IN  [k \in DOMAIN d \cup {key} |-> IF k = key THEN serialized ELSE d[k]]

get_artist_data_raw(d, artist_name) ==
    LET key == as_bytes(artist_name)
    IN  IF key \in DOMAIN d THEN Some(deserialize(d[key])) ELSE None

get_artist_data_default(d, artist_name) ==
    LET key == as_bytes(normalize_unicode(artist_name))
    IN  IF key \in DOMAIN d THEN Some(deserialize(d[key]))
        ELSE Some(ArtistData(0, 0, <<>>))

\* the Option<ArtistData> of get_artist_data(db, artist_name) when db.get succeeds
get_artist_data(d, artist_name) ==
    LET key == as_bytes(normalize_unicode(artist_name))
    IN  IF key \in DOMAIN d THEN Some(deserialize(d[key])) ELSE None

EmptyDb == [k \in {} |-> <<>>]

\* ---- the store API driven directly (operations.rs, its callers and tests)
ArtistNames == {<<"O_uml">>, <<"o_uml">>, <<"O", "uml">>, <<"o", "uml">>,
                <<"K">>, <<"k">>}

MusicRoot == <<"/", "m">>

AlbumA == <<<<"A">>, join(join(MusicRoot, <<"k">>), <<"A">>)>>
AlbumB == <<<<"B">>, join(join(MusicRoot, <<"k">>), <<"B", " ", "[", "x", "]">>)>>

StoreAlbumLists == {<<>>, <<AlbumA>>, <<AlbumA, AlbumB>>}

StoreCall(name, album_count, last_modified, albums, io_ok) ==
    /\ IF io_ok
       THEN /\ db' = store_artist_data(db, name, album_count, last_modified, albums)
            /\ ret' = Ok(Unit)
       ELSE /\ db' = db
            /\ ret' = Err("sled")
    /\ stored' = IF io_ok
                 THEN LET key == normalize_unicode(name)
                          rec == ArtistData(album_count, last_modified, albums)
                      IN  [k \in DOMAIN stored \cup {key} |->
                              IF k = key THEN rec ELSE stored[k]]
                 ELSE stored
    /\ last' = [op |-> "store", name |-> name, io_ok |-> io_ok,
                replaced |-> io_ok /\ get_artist_data(db, name) # None
                             /\ get_artist_data(db, name) #
                                Some(ArtistData(album_count, last_modified, albums))]
    /\ UNCHANGED <<upVars, scanVars, cmpVars, runVars, cleanVars>>

GetCall(name, io_ok) ==
    /\ ret' = IF io_ok THEN Ok(get_artist_data(db, name)) ELSE Err("sled")
    /\ last' = [op |-> "get", name |-> name, io_ok |-> io_ok, replaced |-> FALSE]
    /\ UNCHANGED <<db, stored>>
    /\ UNCHANGED <<upVars, scanVars, cmpVars, runVars, cleanVars>>

StoreStep ==
    \E name \in ArtistNames, album_count \in 0..MaxCount, last_modified \in 0..MaxStamp,
       albums \in StoreAlbumLists, io_ok \in BOOLEAN :
        StoreCall(name, album_count, last_modified, albums, io_ok)

GetStep == \E name \in ArtistNames, io_ok \in BOOLEAN : GetCall(name, io_ok)

\* ---------------------------------------------------------- upload pipeline
Settings == [remote_user |-> <<"u">>, remote_host |-> <<"h">>,
             remote_path |-> <<"/", "r">>, ssh_key_path |-> <<"/", "k">>]

extract_artist_and_album(album_path) ==
    LET path == components(album_path)
        par == parent(path)
        artist == IF par = None THEN None ELSE file_name(par[1])
        album_name == file_name(path)
    IN  IF artist = None THEN [ok |-> FALSE, err |-> "Invalid artist path"]
        ELSE IF album_name = None THEN [ok |-> FALSE, err |-> "Invalid album path"]
        ELSE IF album_name[1] = <<>> THEN [ok |-> FALSE, err |-> "Empty album name"]
        ELSE [ok |-> TRUE, artist |-> artist[1], album |-> album_name[1]]

create_remote_path(settings, artist, album_name) ==
    settings.remote_user \o <<"@">> \o settings.remote_host \o <<":">>
    \o settings.remote_path \o <<"/">> \o artist \o <<"/">> \o album_name

\* one line of scp's stderr: the u64 the regex (\d+)% captures and parses, if any
NoPercent == None
Percent(n) == Some(n)
StderrOutputs == {<<>>, <<NoPercent>>, <<Percent(50)>>,
                  <<Percent(50), NoPercent, Percent(100)>>}

\* the bar position after the lines were read (set_position per matching line)
RECURSIVE read_stderr(_, _)
read_stderr(lines, pos) ==
    IF lines = <<>> THEN pos
    ELSE read_stderr(Tail(lines), IF Head(lines) = None THEN pos ELSE Head(lines)[1])

UploadPaths == {join(join(MusicRoot, <<"k">>), <<"A">>),
                join(join(MusicRoot, <<"k">>), <<"B", " ", "[", "x", "]">>),
                <<"/", "A">>,
                join(join(MusicRoot, <<"k">>), <<".", ".">>)}

RECURSIVE SeqsUpTo(_, _)
SeqsUpTo(S, n) ==
    IF n = 0 THEN {<<>>}
    ELSE LET shorter == SeqsUpTo(S, n - 1)
         IN  shorter \cup {Append(s, x) : s \in {t \in shorter : Len(t) = n - 1}, x \in S}

\* the scp process of one item: its command line, and once it was waited for
\* its exit status and the stderr lines read from it
Child(cmd, exited, status, lines) ==
    [cmd |-> cmd, exited |-> exited, status |-> status, lines |-> lines]

\* upload_missing_albums is entered with its input slice
UploadEnter(list) ==
    /\ upPc = "idle"
    /\ missing_albums' = list
    /\ upPc' = "loop"
    /\ upIdx' = 1
    /\ child' = None
    /\ scpLog' = <<>>
    /\ itemStatus' = [i \in 1..Len(list) |-> "pending"]
    /\ overall_progress' = 0
    /\ album_progress' = 0
    /\ upRet' = [tag |-> "running"]

\* a loop iteration that spawns scp and moves on without waiting for it
UploadSpawn_detached(spawn_ok) ==
    /\ upPc = "loop"
    /\ upIdx <= Len(missing_albums)
    /\ LET album_path == missing_albums[upIdx]
           ex == extract_artist_and_album(album_path)
       IN  IF ~ex.ok
           THEN \* the ? operator returns the error from upload_missing_albums
                /\ upRet' = Err(ex.err)
                /\ upPc' = "done"
                /\ UNCHANGED <<upIdx, child, scpLog, itemStatus, album_progress>>
           ELSE LET remote_path == create_remote_path(Settings, ex.artist, ex.album)
                    cmd == [item |-> upIdx, src |-> album_path, dest |-> remote_path,
                            key |-> Settings.ssh_key_path]
                IN  /\ scpLog' = Append(scpLog, cmd)
                    /\ album_progress' = 0
                    /\ IF spawn_ok
                       THEN /\ child' = Some(Child(cmd, FALSE, None, <<>>))
                            /\ itemStatus' = [itemStatus EXCEPT ![upIdx] = "uploaded"]
                            /\ upIdx' = upIdx + 1
                            /\ UNCHANGED upPc
                       ELSE /\ itemStatus' = [itemStatus EXCEPT ![upIdx] = "failed"]
                            /\ upIdx' = upIdx + 1
                            /\ UNCHANGED <<child, upPc>>
                    /\ UNCHANGED upRet
    /\ UNCHANGED <<missing_albums, overall_progress>>

\* one loop iteration up to Command::spawn
UploadSpawn(spawn_ok) ==
    /\ upPc = "loop"
    /\ upIdx <= Len(missing_albums)
    /\ LET album_path == missing_albums[upIdx]
           ex == extract_artist_and_album(album_path)
       IN  IF ~ex.ok
           THEN \* the ? operator returns the error from upload_missing_albums
                /\ upRet' = Err(ex.err)
                /\ upPc' = "done"
                /\ UNCHANGED <<upIdx, child, scpLog, itemStatus, album_progress>>
           ELSE LET remote_path == create_remote_path(Settings, ex.artist, ex.album)
                    cmd == [item |-> upIdx, src |-> album_path, dest |-> remote_path,
                            key |-> Settings.ssh_key_path]
                IN  /\ scpLog' = Append(scpLog, cmd)
                    /\ album_progress' = 0
                    /\ IF spawn_ok
                       THEN /\ child' = Some(Child(cmd, FALSE, None, <<>>))
                            /\ upPc' = "wait"
                            /\ UNCHANGED <<upIdx, itemStatus>>
                       ELSE /\ itemStatus' = [itemStatus EXCEPT ![upIdx] = "failed"]
                            /\ upIdx' = upIdx + 1
                            /\ UNCHANGED <<child, upPc>>
                    /\ UNCHANGED upRet
    /\ UNCHANGED <<missing_albums, overall_progress>>

\* what child.wait() may return: Some(code) for an exit status, None when
\* the wait itself fails
ExitStatuses == {Some(0), Some(1), None}

upload_ok_at_full_progress(lines, status) ==
    status = Some(0) /\ read_stderr(lines, 0) = 100

\* upload_album returns Ok(()): child.wait()? succeeded and status.success()
upload_ok(lines, status) == status = Some(0)

\* upload_album reads scp's stderr to its end, waits, and the match arm runs
UploadWait(lines, status) ==
    /\ upPc = "wait"
    /\ child # None /\ ~child[1].exited
    /\ album_progress' = read_stderr(lines, album_progress)
    /\ child' = Some(Child(child[1].cmd, TRUE, status, lines))
    /\ itemStatus' = [itemStatus EXCEPT
                         ![upIdx] = IF upload_ok(lines, status) THEN "uploaded" ELSE "failed"]
    /\ overall_progress' = IF upload_ok(lines, status)
                           THEN overall_progress + 1 ELSE overall_progress
    /\ upIdx' = upIdx + 1
    /\ upPc' = "loop"
    /\ UNCHANGED <<missing_albums, scpLog, upRet>>

\* a loop end that reports failed transfers to the caller
UploadFinish_strict ==
    /\ upPc = "loop"
    /\ upIdx > Len(missing_albums)
    /\ upRet' = IF \E i \in DOMAIN itemStatus : itemStatus[i] = "failed"
                THEN Err("transfer") ELSE Ok(Unit)
    /\ upPc' = "done"
    /\ UNCHANGED <<missing_albums, upIdx, child, scpLog, itemStatus,
                   overall_progress, album_progress>>

\* the loop is exhausted: finish the overall bar and return Ok(())
UploadFinish ==
    /\ upPc = "loop"
    /\ upIdx > Len(missing_albums)
    /\ upRet' = Ok(Unit)
    /\ upPc' = "done"
    /\ UNCHANGED <<missing_albums, upIdx, child, scpLog, itemStatus,
                   overall_progress, album_progress>>

UploadStart ==
    /\ \E list \in SeqsUpTo(UploadPaths, MaxItems) : UploadEnter(list)
    /\ UNCHANGED <<storeVars, scanVars, cmpVars, runVars, cleanVars>>

UploadSpawnStep == (\E spawn_ok \in BOOLEAN : UploadSpawn(spawn_ok))
    /\ UNCHANGED <<storeVars, scanVars, cmpVars, runVars, cleanVars>>

UploadWaitStep ==
    /\ \E lines \in StderrOutputs, status \in ExitStatuses : UploadWait(lines, status)
    /\ UNCHANGED <<storeVars, scanVars, cmpVars, runVars, cleanVars>>

UploadFinishStep == UploadFinish /\ UNCHANGED <<storeVars, scanVars, cmpVars, runVars, cleanVars>>

\* ------------------------------------------------------------ local scanner
AUDIO_EXTENSIONS == {<<"m", "p", "3">>, <<"f", "l", "a", "c">>, <<"w", "a", "v">>,
                     <<"m", "4", "a">>}

\* Path::extension of a file name: what follows its last ".", unless the name
\* only starts with it
extension(name) ==
    LET D == {i \in 2..Len(name) : name[i] = "."}
    IN  IF D = {} THEN None
        ELSE LET i == CHOOSE i \in D : \A k \in D : k <= i
             IN  Some(SubSeq(name, i + 1, Len(name)))

is_audio_file(name) ==
    LET ext == extension(name)
    IN  IF ext = None THEN FALSE ELSE to_lowercase(ext[1]) \in AUDIO_EXTENSIONS

\* the file names of the paths WalkDir::new(path) yields: the directory itself
\* and every descendant, files and directories alike
RECURSIVE walk_names(_)
walk_names(entry) ==
    {entry.name} \cup UNION {walk_names(entry.entries[i]) : i \in 1..Len(entry.entries)}

has_audio_files(dir) == \E name \in walk_names(dir) : is_audio_file(name)

has_sub_folders_any(entry) == entry.subs # <<>>

\* fs::read_dir(path) has an entry whose file type is a directory
has_sub_folders(entry) == \E i \in 1..Len(entry.subs) : entry.subs[i].is_dir

RECURSIVE collect_albums_from(_, _, _)
collect_albums_from(artist_path, artist_name, subs) ==
    IF subs = <<>> THEN <<>>
    ELSE LET e == Head(subs)
             rest == collect_albums_from(artist_path, artist_name, Tail(subs))
         IN  IF e.is_dir /\ e.name # artist_name /\ has_audio_files(e)
             THEN <<<<clean_album_name(e.name), join(artist_path, e.name)>>>> \o rest
             ELSE rest

\* collect_albums(artist_path) over the entries WalkDir yields without error
collect_albums(artist_path, artist_name, subs) ==
    collect_albums_from(artist_path, artist_name, subs)

File(name) == [name |-> name, is_dir |-> FALSE, entries |-> <<>>]
Dir(name, entries) == [name |-> name, is_dir |-> TRUE, entries |-> entries]

DirA == Dir(<<"A">>, <<File(<<"x", ".", "m", "p", "3">>)>>)
DirAx == Dir(<<"A", " ", "[", "x", "]">>, <<File(<<"x", ".", "M", "P", "3">>)>>)
DirB == Dir(<<"B">>, <<File(<<"x", ".", "m", "p", "3">>)>>)
DirN == Dir(<<"x">>, <<File(<<"t", ".", "t", "x", "t">>)>>)

\* what the artist directory of the detection tests may hold: an album with a
\* lower-case and one with an upper-case extension, an empty directory, one
\* with text only, one whose audio file lies a level deeper, an empty one named
\* like an audio file, one named like the artist, and a file beside them
DetectEntries ==
    <<Dir(<<"A">>, <<File(<<"x", ".", "m", "p", "3">>)>>),
      Dir(<<"b">>, <<File(<<"x", ".", "M", "P", "3">>), File(<<"t", ".", "t", "x", "t">>)>>),
      Dir(<<"x">>, <<>>),
      Dir(<<"t">>, <<File(<<"t", ".", "t", "x", "t">>)>>),
      Dir(<<"D">>, <<Dir(<<"x">>, <<File(<<"x", ".", "m", "4", "a">>)>>)>>),
      Dir(<<"B", ".", "m", "p", "3">>, <<>>),
      Dir(<<"K">>, <<File(<<"x", ".", "m", "p", "3">>)>>),
      File(<<"a", ".", "m", "p", "3">>)>>

TopDirs == {<<"O_uml">>, <<"o", "uml">>, <<"K">>}

\* what each artist directory may hold, in the order WalkDir yields it
DirShapes(d) ==
    IF d = <<"O_uml">> THEN {<<DirA>>, <<DirAx, DirA>>}
    ELSE IF d = <<"o", "uml">> THEN {<<DirB>>}
    ELSE {<<DirA, DirB>>, <<DirB, DirN>>}

Absent == [kind |-> "absent", mtime |-> 0, subs |-> <<>>]
ArtistDir(mtime, subs) == [kind |-> "dir", mtime |-> mtime, subs |-> subs]
NoSubFolders == ArtistDir(1, <<File(<<"x", ".", "m", "p", "3">>)>>)

NoSubFoldersLater == ArtistDir(MaxMtime, <<File(<<"x", ".", "m", "p", "3">>)>>)

EntryStates(d) ==
    (IF d = <<"K">> THEN {NoSubFolders, NoSubFoldersLater} ELSE {Absent})
    \cup {ArtistDir(t, sh) : t \in 1..MaxMtime, sh \in DirShapes(d)}

Trees == {t \in [TopDirs -> UNION {EntryStates(d) : d \in TopDirs}] :
             \A d \in TopDirs : t[d] \in EntryStates(d)}

TaskOutcomes == {"ok", "entry_err", "read_dir_err", "stat_err", "db_err"}

\* process_root is entered: every top-level entry becomes a task of the pool
ScanBegin ==
    /\ scanPc \in {"idle", "done"}
    /\ scanPc' = "running"
    /\ taskPc' = [d \in TopDirs |-> IF fs[d].kind = "absent" THEN "done" ELSE "todo"]
    /\ taskMtime' = [d \in TopDirs |-> 0]
    /\ scanFailed' = FALSE
    /\ scanRet' = [tag |-> "running"]
    /\ UNCHANGED <<fs, scannedOk, db>>

TaskFail(d) ==
    /\ taskPc' = [taskPc EXCEPT ![d] = "failed"]
    /\ scanFailed' = TRUE
    /\ UNCHANGED <<taskMtime, db>>

TaskSkip_pruning(d) ==
    /\ taskPc' = [taskPc EXCEPT ![d] = "done"]
    /\ db' = [k \in DOMAIN db \ {as_bytes(normalize_unicode(d))} |-> db[k]]
    /\ UNCHANGED <<taskMtime, scanFailed>>

TaskSkip(d) ==
    /\ taskPc' = [taskPc EXCEPT ![d] = "done"]
    /\ UNCHANGED <<taskMtime, scanFailed, db>>

\* the mtime check of process_artist_folder: skip when not newer than stored
unchanged_lt(last_modified, stored_data) == last_modified < stored_data.last_modified

unchanged_always(last_modified, stored_data) == TRUE

unchanged(last_modified, stored_data) == last_modified <= stored_data.last_modified

\* the closure of try_for_each on entry d, up to the mtime check of
\* process_artist_folder
TaskCheck(d, outcome) ==
    /\ scanPc = "running"
    /\ taskPc[d] = "todo"
    /\ ~scanFailed
    /\ IF outcome = "entry_err"
       THEN TaskFail(d)
       ELSE IF fs[d].kind # "dir"
       THEN TaskSkip(d)
       ELSE IF outcome = "read_dir_err"
       THEN TaskFail(d)
       ELSE IF ~has_sub_folders(fs[d])
       THEN TaskSkip(d)
       ELSE IF outcome \in {"stat_err", "db_err"}
       THEN TaskFail(d)
       ELSE LET normalized_name == normalize_unicode(d)
                last_modified == fs[d].mtime
                stored_data == get_artist_data(db, normalized_name)
            IN  IF stored_data # None /\ unchanged(last_modified, stored_data[1])
                THEN TaskSkip(d)
                ELSE /\ taskPc' = [taskPc EXCEPT ![d] = "collect"]
                     /\ taskMtime' = [taskMtime EXCEPT ![d] = last_modified]
                     /\ UNCHANGED <<scanFailed, db>>
    /\ UNCHANGED <<fs, scanPc, scanRet, scannedOk>>

\* the entries WalkDir yields as Ok when it can read only those in yielded
RECURSIVE walk_entries(_, _, _)
walk_entries(subs, yielded, i) ==
    IF i > Len(subs) THEN <<>>
    ELSE (IF i \in yielded THEN <<subs[i]>> ELSE <<>>) \o walk_entries(subs, yielded, i + 1)

\* the artist directory of the detection tests holds some of DetectEntries
DetectShapes ==
    {walk_entries(DetectEntries, S, 1) :
        S \in {T \in SUBSET (1..Len(DetectEntries)) : Cardinality(T) <= MaxEntries}}

DetectTrees ==
    {[d \in TopDirs |-> IF d = <<"K">> THEN ArtistDir(1, shape) ELSE Absent] :
        shape \in DetectShapes}

\* the rest of process_artist_folder: collect_albums and store_artist_data;
\* entries whose read fails are dropped by filter_map(Result::ok)
TaskStore(d, yielded, db_ok) ==
    /\ scanPc = "running"
    /\ taskPc[d] = "collect"
    /\ yielded \subseteq 1..Len(fs[d].subs)
    /\ LET normalized_name == normalize_unicode(d)
           albums == collect_albums(join(MusicRoot, d), d,
                                    walk_entries(fs[d].subs, yielded, 1))
           album_count == Len(albums)
       IN  IF db_ok
           THEN /\ db' = store_artist_data(db, normalized_name, album_count,
                                           taskMtime[d], albums)
                /\ UNCHANGED scanFailed
           ELSE /\ scanFailed' = TRUE
                /\ UNCHANGED db
    /\ taskPc' = [taskPc EXCEPT ![d] = IF db_ok THEN "done" ELSE "failed"]
    /\ taskMtime' = [taskMtime EXCEPT ![d] = 0]
    /\ UNCHANGED <<fs, scanPc, scanRet, scannedOk>>

ScanEnd_early ==
    /\ scanPc = "running"
    /\ scanPc' = "done"
    /\ scanRet' = IF scanFailed THEN Err("io") ELSE Ok(Unit)
    /\ scannedOk' = (scannedOk \/ ~scanFailed)
    /\ UNCHANGED <<fs, taskPc, taskMtime, scanFailed, db>>

\* try_for_each returns: no task is running, and none is left unless one failed
ScanEnd ==
    /\ scanPc = "running"
    /\ \A d \in TopDirs : taskPc[d] \in {"todo", "done", "failed"}
    /\ scanFailed \/ \A d \in TopDirs : taskPc[d] = "done"
    /\ scanPc' = "done"
    /\ scanRet' = IF scanFailed THEN Err("io") ELSE Ok(Unit)
    /\ scannedOk' = (scannedOk \/ ~scanFailed)
    /\ UNCHANGED <<fs, taskPc, taskMtime, scanFailed, db>>

\* the user changes the library between two scans
FsChange(d, entry) ==
    /\ scanPc \in {"idle", "done"}
    /\ fs[d] # entry
    /\ fs' = [fs EXCEPT ![d] = entry]
    /\ scannedOk' = FALSE
    /\ UNCHANGED <<scanPc, taskPc, taskMtime, scanFailed, scanRet, db>>

ScanBeginStep == ScanBegin /\ UNCHANGED <<last, ret, stored, upVars, cmpVars, runVars, cleanVars>>

TaskCheckStep ==
    /\ \E d \in TopDirs, outcome \in TaskOutcomes : TaskCheck(d, outcome)
    /\ UNCHANGED <<last, ret, stored, upVars, cmpVars, runVars, cleanVars>>

TaskStoreStep ==
    /\ \E d \in TopDirs, db_ok \in BOOLEAN :
          \E yielded \in SUBSET (1..Len(fs[d].subs)) : TaskStore(d, yielded, db_ok)
    /\ UNCHANGED <<last, ret, stored, upVars, cmpVars, runVars, cleanVars>>

\* the rest of process_artist_folder when every read succeeds
TaskStoreAllStep ==
    /\ \E d \in TopDirs : TaskStore(d, 1..Len(fs[d].subs), TRUE)
    /\ UNCHANGED <<last, ret, stored, upVars, cmpVars, runVars, cleanVars>>

ScanEndStep == ScanEnd /\ UNCHANGED <<last, ret, stored, upVars, cmpVars, runVars, cleanVars>>

FsChangeStep ==
    /\ \E d \in TopDirs : \E entry \in EntryStates(d) : FsChange(d, entry)
    /\ UNCHANGED <<last, ret, stored, upVars, cmpVars, runVars, cleanVars>>

\* ---------------------------------------------------- remote catalog client
RemoteArtist(name, albumCount, albums) ==
    [name |-> name, albumCount |-> albumCount, id |-> name, albums |-> albums]

RemoteNames == {<<"o_uml">>, <<"k">>}

RemoteAlbumLists == {<<>>, <<<<"A">>, <<"B", " ", "[", "x", "]">>>>,
                     <<<<"B">>, <<"D">>>>}

RemoteArtists ==
    {RemoteArtist(n, c, al) : n \in RemoteNames, c \in 1..MaxRemoteCount,
                               al \in RemoteAlbumLists}

\* the server's artist index lists at most two artists
RemoteCatalogs == SeqsUpTo(RemoteArtists, 2)

\* indexes of three artists, the last one unknown to the local library
LongCatalogs ==
    {<<RemoteArtist(<<"k">>, c, <<>>), RemoteArtist(<<"o_uml">>, c, <<>>),
       RemoteArtist(<<"x">>, 1, <<>>)>> : c \in 1..MaxRemoteCount}

\* response["subsonic-response"]["artists"]["index"][..]["artist"][..]
artist_index(catalog) ==
    [i \in 1..Len(catalog) |->
        [name |-> catalog[i].name, albumCount |-> catalog[i].albumCount,
         id |-> catalog[i].id]]

\* response["subsonic-response"]["artist"]["album"][..]["name"] for getArtist?id=
artist_albums(catalog, id) ==
    LET I == {i \in 1..Len(catalog) : catalog[i].id = id}
    IN  IF I = {} THEN <<>>
        ELSE catalog[CHOOSE i \in I : \A k \in I : i <= k].albums

\* ------------------------------------------------------------- reconciler
Range(s) == {s[i] : i \in 1..Len(s)}

\* every order in which a HashSet may yield its elements
Orders(S) ==
    {s \in [1..Cardinality(S) -> S] : \A i, j \in 1..Cardinality(S) : i # j => s[i] # s[j]}

\* local_albums.iter().find(|(name, _)| name == album_name).map(|(_, path)| path)
find_path(local_albums, album_name) ==
    LET I == {i \in 1..Len(local_albums) : local_albums[i][1] = album_name}
    IN  local_albums[CHOOSE i \in I : \A k \in I : i <= k][2]

missing_in_api_swapped(local_set, api_albums) == api_albums \ local_set

\* local_set.difference(&api_albums)
missing_in_api(local_set, api_albums) == local_set \ api_albums

counts_differ_always(local_count, api_album_count) == TRUE

\* local_data.album_count != api_album_count
counts_differ(local_count, api_album_count) == local_count # api_album_count

\* the api_albums set compare_album_lists builds from a response
api_album_set(resp) ==
    IF resp.kind = "ok" THEN {clean_album_name(resp.names[i]) : i \in 1..Len(resp.names)}
    ELSE {}

\* the results compare_album_lists may return for a response
compare_album_lists(resp, local_albums) ==
    LET api_albums == api_album_set(resp)
        local_set == {local_albums[i][1] : i \in 1..Len(local_albums)}
        missing == {n \in missing_in_api(local_set, api_albums) : n \in local_set}
    IN  {[i \in 1..Len(order) |-> find_path(local_albums, order[i])] :
            order \in Orders(missing)}

\* the variants of CompareError the reconciler returns
CompareError(variant, code, message) ==
    [variant |-> variant, code |-> code, message |-> message]

IoError == CompareError("IoError", 0, <<>>)
ReqwestError == CompareError("ReqwestError", 0, <<>>)
ApiError(code, message) == CompareError("ApiError", code, message)

\* Option::unwrap_or
unwrap_or(opt, default) == IF opt = None THEN default ELSE opt[1]

\* a response to getArtists: the index, an error object, or no response at all
IndexResponse(kind, code, message) == [kind |-> kind, code |-> code, message |-> message]

NoResponse == IndexResponse("none", None, None)

ErrorMessages == {<<"M">>, <<"k">>}

IndexResponses ==
    {IndexResponse("ok", None, None), IndexResponse("transport_err", None, None)}
    \cup {IndexResponse("error", c, m) :
              c \in {None, Some(10), Some(40)}, m \in {None} \cup {Some(t) : t \in ErrorMessages}}

has_error_never(response) == FALSE

\* response["subsonic-response"]["error"].as_object() is Some
has_error(response) == response.kind = "error"

\* fetch_artists on the response it received, the catalog being what an index
\* response lists
fetch_artists(response, catalog) ==
    IF response.kind = "transport_err" THEN Err(ReqwestError)
    ELSE IF has_error(response)
    THEN Err(ApiError(unwrap_or(response.code, 0),
                      unwrap_or(response.message,
                                <<"U", "n", "k", "n", "o", "w", "n", " ",
                                  "e", "r", "r", "o", "r">>)))
    ELSE Ok(artist_index(catalog))

\* compare_with_api up to the loop: fetch_artists
CompareEnter(response) ==
    /\ cmpPc = "idle"
    /\ indexResponse' = response
    /\ cmpLog' = <<>>
    /\ all_missing_album_paths' = <<>>
    /\ LET fetched == fetch_artists(response, remote)
       IN  IF fetched.tag = "Ok"
           THEN /\ artists' = fetched.val
                /\ cmpPc' = "loop"
                /\ cmpRet' = [tag |-> "running"]
           ELSE /\ artists' = <<>>
                /\ cmpPc' = "done"
                /\ cmpRet' = fetched
    /\ UNCHANGED <<remote, db>>

\* the loop iteration when a caller isolates a failed getArtist to its artist
ProcessArtist_isolating(db_ok, resp_kind) ==
    /\ cmpPc = "loop"
    /\ artists # <<>>
    /\ LET artist == Head(artists)
           normalized_name == normalize_unicode(artist.name)
           local_data == get_artist_data(db, normalized_name)
           resp == [kind |-> resp_kind, names |-> artist_albums(remote, artist.id)]
       IN  IF ~db_ok
           THEN /\ cmpRet' = Err(IoError)
                /\ cmpPc' = "done"
                /\ UNCHANGED <<artists, all_missing_album_paths, cmpLog>>
           ELSE IF local_data # None
                   /\ counts_differ(local_data[1].album_count, artist.albumCount)
           THEN IF resp_kind = "transport_err"
                THEN /\ cmpLog' = Append(cmpLog, [artist |-> artist, called |-> TRUE,
                                                  resp |-> resp, paths |-> <<>>])
                     /\ artists' = Tail(artists)
                     /\ UNCHANGED <<cmpPc, cmpRet, all_missing_album_paths>>
                ELSE \E missing_albums_of \in compare_album_lists(resp, local_data[1].albums) :
                     /\ all_missing_album_paths' =
                            all_missing_album_paths \o missing_albums_of
                     /\ cmpLog' = Append(cmpLog, [artist |-> artist, called |-> TRUE,
                                                  resp |-> resp,
                                                  paths |-> missing_albums_of])
                     /\ artists' = Tail(artists)
                     /\ UNCHANGED <<cmpPc, cmpRet>>
           ELSE /\ resp_kind = "ok"
                /\ cmpLog' = Append(cmpLog, [artist |-> artist, called |-> FALSE,
                                             resp |-> [kind |-> "none", names |-> <<>>],
                                             paths |-> <<>>])
                /\ artists' = Tail(artists)
                /\ UNCHANGED <<all_missing_album_paths, cmpPc, cmpRet>>
    /\ UNCHANGED <<remote, indexResponse, db>>

\* one iteration of the loop of compare_with_api: process_artist(artist)
ProcessArtist(db_ok, resp_kind) ==
    /\ cmpPc = "loop"
    /\ artists # <<>>
    /\ LET artist == Head(artists)
           normalized_name == normalize_unicode(artist.name)
           local_data == get_artist_data(db, normalized_name)
           resp == [kind |-> resp_kind, names |-> artist_albums(remote, artist.id)]
       IN  IF ~db_ok
           THEN /\ cmpRet' = Err(IoError)
                /\ cmpPc' = "done"
                /\ UNCHANGED <<artists, all_missing_album_paths, cmpLog>>
           ELSE IF local_data # None
                   /\ counts_differ(local_data[1].album_count, artist.albumCount)
           THEN IF resp_kind = "transport_err"
                THEN /\ cmpRet' = Err(ReqwestError)
                     /\ cmpPc' = "done"
                     /\ cmpLog' = Append(cmpLog, [artist |-> artist, called |-> TRUE,
                                                  resp |-> resp, paths |-> <<>>])
                     /\ UNCHANGED <<artists, all_missing_album_paths>>
                ELSE \E missing_albums_of \in compare_album_lists(resp, local_data[1].albums) :
                     /\ all_missing_album_paths' =
                            all_missing_album_paths \o missing_albums_of
                     /\ cmpLog' = Append(cmpLog, [artist |-> artist, called |-> TRUE,
                                                  resp |-> resp,
                                                  paths |-> missing_albums_of])
                     /\ artists' = Tail(artists)
                     /\ UNCHANGED <<cmpPc, cmpRet>>
           ELSE /\ resp_kind = "ok"
                /\ cmpLog' = Append(cmpLog, [artist |-> artist, called |-> FALSE,
                                             resp |-> [kind |-> "none", names |-> <<>>],
                                             paths |-> <<>>])
                /\ artists' = Tail(artists)
                /\ UNCHANGED <<all_missing_album_paths, cmpPc, cmpRet>>
    /\ UNCHANGED <<remote, indexResponse, db>>

\* a loop end that drops the records of artists the remote index lacks
CompareReturn_syncing ==
    /\ cmpPc = "loop"
    /\ artists = <<>>
    /\ cmpRet' = Ok(all_missing_album_paths)
    /\ cmpPc' = "done"
    /\ db' = [k \in {k \in DOMAIN db :
                       \E i \in 1..Len(remote) :
                          as_bytes(normalize_unicode(remote[i].name)) = k} |-> db[k]]
    /\ UNCHANGED <<remote, indexResponse, artists, all_missing_album_paths, cmpLog>>

\* the loop is exhausted: Ok(all_missing_album_paths)
CompareReturn ==
    /\ cmpPc = "loop"
    /\ artists = <<>>
    /\ cmpRet' = Ok(all_missing_album_paths)
    /\ cmpPc' = "done"
    /\ UNCHANGED <<remote, indexResponse, artists, all_missing_album_paths, cmpLog, db>>

ResponseKinds == {"ok", "error_payload", "transport_err"}

CompareEnterStep ==
    /\ \E response \in IndexResponses : CompareEnter(response)
    /\ UNCHANGED <<last, ret, stored, upVars, scanVars, runVars, cleanVars>>

ProcessArtistStep ==
    /\ \E db_ok \in BOOLEAN, resp_kind \in ResponseKinds : ProcessArtist(db_ok, resp_kind)
    /\ UNCHANGED <<last, ret, stored, upVars, scanVars, runVars, cleanVars>>

CompareReturnStep ==
    /\ CompareReturn
    /\ UNCHANGED <<last, ret, stored, upVars, scanVars, runVars, cleanVars>>

\* the catalog a sequential scan of a tree leaves in an empty store
RECURSIVE catalog_of(_, _, _)
catalog_of(d, tree, dirs) ==
    IF dirs = <<>> THEN d
    ELSE LET dir == Head(dirs)
             albums == collect_albums(join(MusicRoot, dir), dir, tree[dir].subs)
         IN  IF tree[dir].kind = "dir" /\ has_sub_folders(tree[dir])
             THEN catalog_of(store_artist_data(d, normalize_unicode(dir), Len(albums),
                                               tree[dir].mtime, albums),
                             tree, Tail(dirs))
             ELSE catalog_of(d, tree, Tail(dirs))

CompareTrees ==
    {t \in Trees : t[<<"o", "uml">>] = Absent /\ \A d \in TopDirs : t[d].mtime <= 1}

CompareCatalogs ==
    {catalog_of(EmptyDb, t, <<<<"O_uml">>, <<"o", "uml">>, <<"K">>>>) : t \in CompareTrees}

\* -------------------------------------------------------------- start_sync
SetupOutcomes == {"ok", "config_err", "db_open_err"}

\* start_sync up to the call of process_root
RunStart(setup) ==
    /\ runPc = "idle"
    /\ IF setup = "ok"
       THEN /\ ScanBegin
            /\ runPc' = "scan"
            /\ UNCHANGED runRet
       ELSE /\ runPc' = "done"
            /\ runRet' = Err(setup)
            /\ UNCHANGED <<scanVars, db>>
    /\ UNCHANGED <<last, ret, stored, upVars, cmpVars, cleanVars>>

\* process_root has returned: give up on Err, else call compare_with_api
RunAfterScan(response) ==
    /\ runPc = "scan"
    /\ scanPc = "done"
    /\ IF scanRet.tag = "Err"
       THEN /\ response = NoResponse
            /\ runPc' = "done"
            /\ runRet' = Ok(Unit)
            /\ UNCHANGED <<cmpVars, db>>
       ELSE /\ response # NoResponse
            /\ CompareEnter(response)
            /\ runPc' = "compare"
            /\ UNCHANGED runRet
    /\ UNCHANGED <<last, ret, stored, upVars, scanVars, cleanVars>>

\* a start_sync that uploads what was accumulated before the error
RunAfterCompare_partial ==
    /\ runPc = "compare"
    /\ cmpPc = "done"
    /\ LET missing == IF cmpRet.tag = "Ok" THEN cmpRet.val ELSE all_missing_album_paths
       IN  IF missing = <<>>
           THEN /\ runPc' = "done"
                /\ runRet' = Ok(Unit)
                /\ UNCHANGED upVars
           ELSE /\ UploadEnter(missing)
                /\ runPc' = "upload"
                /\ UNCHANGED runRet
    /\ UNCHANGED <<storeVars, scanVars, cmpVars, cleanVars>>

\* compare_with_api has returned: unwrap_or_else, then upload unless empty
RunAfterCompare ==
    /\ runPc = "compare"
    /\ cmpPc = "done"
    /\ LET missing == IF cmpRet.tag = "Ok" THEN cmpRet.val ELSE <<>>
       IN  IF missing = <<>>
           THEN /\ runPc' = "done"
                /\ runRet' = Ok(Unit)
                /\ UNCHANGED upVars
           ELSE /\ UploadEnter(missing)
                /\ runPc' = "upload"
                /\ UNCHANGED runRet
    /\ UNCHANGED <<storeVars, scanVars, cmpVars, cleanVars>>

\* upload_missing_albums has returned: its error is only printed
RunAfterUpload ==
    /\ runPc = "upload"
    /\ upPc = "done"
    /\ runPc' = "done"
    /\ runRet' = Ok(Unit)
    /\ UNCHANGED <<storeVars, scanVars, cmpVars, upVars, cleanVars>>

RunStartStep == \E setup \in SetupOutcomes : RunStart(setup)

RunAfterScanStep == \E response \in IndexResponses \cup {NoResponse} : RunAfterScan(response)

\* the libraries and remote catalogs a run is made on
RunTrees == CompareTrees

RunRemotes ==
    {c \in RemoteCatalogs : \A i, j \in 1..Len(c) : c[i].name = c[j].name => i = j}

\* ---------------------------------------------------------- specifications
InitStore ==
    /\ db = EmptyDb
    /\ last = [op |-> "none", name |-> <<>>, io_ok |-> TRUE, replaced |-> FALSE]
    /\ ret = Ok(Unit)
    /\ stored = EmptyDb

InitUpload ==
    /\ missing_albums = <<>>
    /\ upPc = "idle"
    /\ upIdx = 1
    /\ child = None
    /\ scpLog = <<>>
    /\ itemStatus = <<>>
    /\ overall_progress = 0
    /\ album_progress = 0
    /\ upRet = [tag |-> "running"]

InitScanState ==
    /\ scanPc = "idle"
    /\ taskPc = [d \in TopDirs |-> "todo"]
    /\ taskMtime = [d \in TopDirs |-> 0]
    /\ scanFailed = FALSE
    /\ scanRet = [tag |-> "running"]
    /\ scannedOk = FALSE

InitialTree ==
    [d \in TopDirs |-> IF d = <<"K">> THEN ArtistDir(1, <<DirA, DirB>>)
                       ELSE IF d = <<"O_uml">> THEN ArtistDir(1, <<DirA>>)
                       ELSE ArtistDir(MaxMtime, <<DirB>>)]

InitCompareState ==
    /\ cmpPc = "idle"
    /\ indexResponse = NoResponse
    /\ artists = <<>>
    /\ all_missing_album_paths = <<>>
    /\ cmpLog = <<>>
    /\ cmpRet = [tag |-> "running"]

InitRunState ==
    /\ runPc = "idle"
    /\ runRet = [tag |-> "running"]

InitCleanState ==
    /\ cleanName = <<>>
    /\ cleanCalls = 0

InitRest ==
    /\ InitStore /\ InitUpload /\ InitScanState /\ InitCompareState /\ InitRunState
    /\ InitCleanState

Init == InitRest /\ fs = InitialTree /\ remote = <<>>

InitCompare ==
    /\ last = [op |-> "none", name |-> <<>>, io_ok |-> TRUE, replaced |-> FALSE]
    /\ ret = Ok(Unit)
    /\ stored = EmptyDb
    /\ InitUpload /\ InitScanState /\ InitCompareState /\ InitRunState
    /\ InitCleanState
    /\ fs = InitialTree
    /\ db \in CompareCatalogs
    /\ remote \in RemoteCatalogs \cup LongCatalogs

InitScan == Init

NextStore == StoreStep \/ GetStep

NextUpload == UploadStart \/ UploadSpawnStep \/ UploadWaitStep \/ UploadFinishStep

SpecStore == Init /\ [][NextStore]_vars

SpecUpload == Init /\ [][NextUpload]_vars

NextScan == ScanBeginStep \/ TaskCheckStep \/ TaskStoreStep \/ ScanEndStep \/ FsChangeStep

SpecScan == InitScan /\ [][NextScan]_vars

InitRun == InitRest /\ fs \in RunTrees /\ remote \in RunRemotes

Next ==
    \/ RunStartStep
    \/ TaskCheckStep
    \/ TaskStoreStep
    \/ ScanEndStep
    \/ RunAfterScanStep
    \/ ProcessArtistStep
    \/ CompareReturnStep
    \/ RunAfterCompare
    \/ UploadSpawnStep
    \/ UploadWaitStep
    \/ UploadFinishStep
    \/ RunAfterUpload

Spec == InitRun /\ [][Next]_vars

\* one scan of any library into an empty store, every read succeeding or
\* ending the scan
InitPar == InitRest /\ fs \in Trees /\ remote = <<>>

NextPar == RunStartStep \/ TaskCheckStep \/ TaskStoreAllStep \/ ScanEndStep

SpecPar == InitPar /\ [][NextPar]_vars

\* musync is invoked again: a new process, with the store and the library as
\* the last run left them
RunAgain ==
    /\ runPc = "done"
    /\ missing_albums' = <<>> /\ upPc' = "idle" /\ upIdx' = 1 /\ child' = None
    /\ scpLog' = <<>> /\ itemStatus' = <<>> /\ overall_progress' = 0
    /\ album_progress' = 0 /\ upRet' = [tag |-> "running"]
    /\ scanPc' = "idle" /\ taskPc' = [d \in TopDirs |-> "todo"]
    /\ taskMtime' = [d \in TopDirs |-> 0] /\ scanFailed' = FALSE
    /\ scanRet' = [tag |-> "running"]
    /\ cmpPc' = "idle" /\ indexResponse' = NoResponse /\ artists' = <<>>
    /\ all_missing_album_paths' = <<>> /\ cmpLog' = <<>>
    /\ cmpRet' = [tag |-> "running"]
    /\ runPc' = "idle" /\ runRet' = [tag |-> "running"]
    /\ UNCHANGED <<storeVars, fs, scannedOk, remote, cleanVars>>

\* between two runs the user removes an artist directory, or leaves it
\* without any subdirectory
FsRemoveStep ==
    /\ runPc = "idle"
    /\ \E d \in TopDirs : FsChange(d, IF d = <<"K">> THEN NoSubFolders ELSE Absent)
    /\ UNCHANGED <<last, ret, stored, upVars, cmpVars, runVars, cleanVars>>

\* the library and the remote catalog of a sequence of runs
LifeRemotes ==
    {<<RemoteArtist(<<"k">>, 1, al), RemoteArtist(<<"o_uml">>, c, <<>>)>> :
        al \in RemoteAlbumLists, c \in 1..MaxRemoteCount}

InitLife == InitRest /\ fs = InitialTree /\ remote \in LifeRemotes

NextLife == Next \/ RunAgain \/ FsRemoveStep

SpecLife == InitLife /\ [][NextLife]_vars

InitDetect == InitRest /\ fs \in DetectTrees /\ remote = <<>>

NextDetect == ScanBeginStep \/ TaskCheckStep \/ TaskStoreAllStep \/ ScanEndStep

SpecDetect == InitDetect /\ [][NextDetect]_vars

InitClean ==
    /\ InitStore /\ InitUpload /\ InitScanState /\ InitCompareState /\ InitRunState
    /\ fs = InitialTree /\ remote = <<>>
    /\ cleanName \in Names
    /\ cleanCalls = 0

SpecClean == InitClean /\ [][CleanStep]_vars

NextCompare == CompareEnterStep \/ ProcessArtistStep \/ CompareReturnStep

SpecCompare == InitCompare /\ [][NextCompare]_vars

\* ------------------------------------------------------------------ claims
NumItems == Len(missing_albums)

\* the loop of upload_missing_albums reached item i
Attempted(i) == i < upIdx \/ (i = upIdx /\ upPc \in {"wait", "done"} /\ upRet.tag # "Ok")

TransferFailed(i) == i \in DOMAIN itemStatus /\ itemStatus[i] = "failed"

PathShapeFailed(i) == upPc = "done" /\ upRet.tag = "Err" /\ i = upIdx

\* C1: when upload_missing_albums has returned, every item after an item whose
\* transfer failed (scp not started, or a non-zero exit status) was attempted.
C1_TransferFailureIsolated ==
    upPc = "done" =>
        \A i \in 1..NumItems : TransferFailed(i) =>
            \A j \in (i + 1)..NumItems : Attempted(j)

\* C2: when upload_missing_albums has returned, every item after an item that
\* failed with a path-shape error was attempted.
C2_PathShapeFailureIsolated ==
    upPc = "done" =>
        \A i \in 1..NumItems : PathShapeFailed(i) =>
            \A j \in (i + 1)..NumItems : Attempted(j)

\* C3: when upload_missing_albums has returned, its return value holds one
\* entry per input path, carrying that path and its outcome.
C3_StructuredResult ==
    upPc = "done" =>
        /\ upRet.tag = "Ok"
        /\ Len(upRet.val) = NumItems
        /\ \A i \in 1..NumItems :
              /\ upRet.val[i].path = missing_albums[i]
              /\ upRet.val[i].outcome \in {"succeeded", "failed"}

\* C5: names that normalize alike read the same record, and a record stored
\* under a raw name is found under the raw name and under its normalized form.
C5_NormalizationEquivalence ==
    /\ \A a \in ArtistNames, b \in ArtistNames :
          normalize_unicode(a) = normalize_unicode(b) =>
              get_artist_data(db, a) = get_artist_data(db, b)
    /\ (last.op = "store" /\ last.io_ok) =>
          /\ get_artist_data(db, last.name) # None
          /\ get_artist_data(db, normalize_unicode(last.name))
                = get_artist_data(db, last.name)

C5_Witness ==
    /\ last.op = "store" /\ last.io_ok
    /\ normalize_unicode(last.name) # last.name
    /\ get_artist_data(db, normalize_unicode(last.name)) # None
    /\ Cardinality(DOMAIN db) = 2

\* C6: get_artist_data(name) returns exactly the record of the most recent
\* store on normalize(name), so a second store wholly replaces the first.
C6_RoundTripOverwrite ==
    \A name \in ArtistNames :
        get_artist_data(db, name) =
            IF normalize_unicode(name) \in DOMAIN stored
            THEN Some(stored[normalize_unicode(name)])
            ELSE None

C6_Witness ==
    /\ last.op = "store" /\ last.replaced
    /\ get_artist_data(db, last.name) = Some(stored[normalize_unicode(last.name)])
    /\ stored[normalize_unicode(last.name)].albums = <<AlbumA, AlbumB>>

\* C7: a get on a key never stored returns Ok(None) and changes nothing in
\* the store.
C7_GetAbsent ==
    [][last'.op = "get" =>
          /\ db' = db
          /\ (last'.io_ok /\ normalize_unicode(last'.name) \notin DOMAIN stored)
                => ret' = Ok(None)]_vars

C7_Witness ==
    /\ last.op = "get" /\ last.io_ok
    /\ normalize_unicode(last.name) \notin DOMAIN stored
    /\ ret = Ok(None)
    /\ DOMAIN db # {}

\* the check of process_artist_folder finds a record at least as new as d
SkipCase(d) ==
    /\ fs[d].kind = "dir"
    /\ get_artist_data(db, normalize_unicode(d)) # None
    /\ fs[d].mtime <= get_artist_data(db, normalize_unicode(d))[1].last_modified

\* C4: when the task of an artist directory finds a record under the
\* normalized name whose last_modified is at least the directory's mtime, the
\* task ends without collecting and the store is left as it was.
C4_ScanSkipRule ==
    [][\A d \in TopDirs :
          (taskPc[d] = "todo" /\ taskPc'[d] # "todo" /\ SkipCase(d)) =>
              (taskPc'[d] \in {"done", "failed"} /\ db' = db)]_vars

C4_Witness ==
    LET d == <<"K">>
        rec == get_artist_data(db, normalize_unicode(d))
    IN  /\ scanPc = "running" /\ taskPc[d] = "done" /\ ~scanFailed
        /\ SkipCase(d) /\ has_sub_folders(fs[d])
        /\ \A yielded \in SUBSET (1..Len(fs[d].subs)) :
              rec[1].albums # collect_albums(join(MusicRoot, d), d,
                                             walk_entries(fs[d].subs, yielded, 1))

LocalRecord(artist) == get_artist_data(db, normalize_unicode(artist.name))

LocalNames(rec) == {rec.albums[k][1] : k \in 1..Len(rec.albums)}

CleanedNames(names) == {clean_album_name(names[k]) : k \in 1..Len(names)}

\* the stored paths of the albums of rec whose name is absent from names
PathsOfMissing(rec, names) ==
    {rec.albums[k][2] : k \in {k \in 1..Len(rec.albums) :
                                  rec.albums[k][1] \notin CleanedNames(names)}}

\* C8: for a processed artist with a local record whose album_count differs
\* from the remote count and whose album listing was obtained, the paths
\* contributed are exactly the stored paths of the albums whose name is in
\* local names minus cleaned remote names, each once.
C8_ReconciliationDiff ==
    \A i \in DOMAIN cmpLog :
        LET e == cmpLog[i]
            rec == LocalRecord(e.artist)
        IN  (rec # None /\ rec[1].album_count # e.artist.albumCount
                /\ e.called /\ e.resp.kind = "ok") =>
                /\ Range(e.paths) = PathsOfMissing(rec[1], e.resp.names)
                /\ Len(e.paths) = Cardinality(PathsOfMissing(rec[1], e.resp.names))

\* the reconciler skips this artist: no local record, or equal counts
SkipsArtist(artist) ==
    \/ LocalRecord(artist) = None
    \/ LocalRecord(artist)[1].album_count = artist.albumCount

\* C9: processing a remote artist that has no local record, or whose local
\* album_count equals the remote count, makes no list_albums call, adds no path
\* to the job list and is not an error (only a failed store read is).
C9_ReconcilerSkipRules ==
    [][(cmpPc = "loop" /\ artists # <<>> /\ SkipsArtist(Head(artists))
          /\ <<cmpPc, artists, cmpLog>>' # <<cmpPc, artists, cmpLog>>) =>
          \/ /\ cmpRet' = Err(IoError)
             /\ UNCHANGED <<all_missing_album_paths, cmpLog>>
          \/ /\ artists' = Tail(artists)
             /\ cmpPc' = "loop"
             /\ UNCHANGED <<cmpRet, all_missing_album_paths>>
             /\ Len(cmpLog') = Len(cmpLog) + 1
             /\ ~cmpLog'[Len(cmpLog')].called
             /\ cmpLog'[Len(cmpLog')].paths = <<>>]_vars

C9_Witness ==
    /\ cmpPc = "done" /\ cmpRet = Ok(<<>>)
    /\ \E i \in DOMAIN cmpLog : LocalRecord(cmpLog[i].artist) = None
    /\ \E i \in DOMAIN cmpLog :
          LET rec == LocalRecord(cmpLog[i].artist)
          IN  /\ rec # None
              /\ rec[1].album_count = cmpLog[i].artist.albumCount
              /\ PathsOfMissing(rec[1], artist_albums(remote, cmpLog[i].artist.id)) # {}
              /\ ~cmpLog[i].called

\* the paths whose transfer succeeded
Transferred == {missing_albums[i] : i \in {k \in DOMAIN itemStatus : itemStatus[k] = "uploaded"}}

\* start_sync has returned and the scan, the reconciliation and every transfer
\* succeeded
RunSucceeded ==
    /\ runPc = "done" /\ runRet = Ok(Unit)
    /\ scanRet = Ok(Unit)
    /\ cmpRet.tag = "Ok"
    /\ \/ cmpRet.val = <<>>
       \/ /\ upRet = Ok(Unit)
          /\ \A i \in DOMAIN itemStatus : itemStatus[i] = "uploaded"

\* the cleaned album names the remote holds for the artist stored under key
RemoteNamesOf(key) ==
    UNION {CleanedNames(remote[i].albums) :
              i \in {k \in 1..Len(remote) : as_bytes(normalize_unicode(remote[k].name)) = key}}

C11_JobListIsSet ==
    \A i, j \in DOMAIN all_missing_album_paths :
        all_missing_album_paths[i] = all_missing_album_paths[j] => i = j

\* C12: when the response to getArtists carries an error object,
\* compare_with_api has returned an ApiError with the code and message of that
\* object, no artist was processed (no getArtist call) and no path was listed.
C12_IndexErrorAborts ==
    indexResponse.kind = "error" =>
        /\ cmpPc = "done"
        /\ cmpRet.tag = "Err"
        /\ cmpRet.err.variant = "ApiError"
        /\ indexResponse.code # None => cmpRet.err.code = indexResponse.code[1]
        /\ indexResponse.message # None => cmpRet.err.message = indexResponse.message[1]
        /\ cmpLog = <<>>
        /\ all_missing_album_paths = <<>>

C12_Witness ==
    /\ indexResponse = IndexResponse("error", Some(40), Some(<<"M">>))
    /\ cmpRet = Err(ApiError(40, <<"M">>))
    /\ remote # <<>>
    /\ \E i \in 1..Len(remote) :
          /\ LocalRecord(remote[i]) # None
          /\ LocalRecord(remote[i])[1].album_count # remote[i].albumCount

\* C13: an artist whose getArtist response carries an error object contributes
\* no path, and compare_with_api fails with an ApiError.
C13_DetailErrorFails ==
    \A i \in DOMAIN cmpLog :
        cmpLog[i].resp.kind = "error_payload" =>
            /\ cmpLog[i].paths = <<>>
            /\ cmpRet.tag = "Err"
            /\ cmpRet.err.variant = "ApiError"

\* the record a task of directory d may write: built from the entries WalkDir
\* yielded, with their count and the mtime read at the check
CompleteRecords(d) ==
    {ArtistData(Len(albums), taskMtime[d], albums) :
        albums \in {collect_albums(join(MusicRoot, d), d, walk_entries(fs[d].subs, yielded, 1)) :
                       yielded \in SUBSET (1..Len(fs[d].subs))}}

\* C14: after every scan step each stored record has album_count = len(albums),
\* no record is removed, and a record that changed was replaced as a whole by
\* the complete record of the task that stored it.
C14_RecordsSelfConsistent ==
    [][/\ DOMAIN db \subseteq DOMAIN db'
       /\ \A key \in DOMAIN db' :
             /\ deserialize(db'[key]).album_count = Len(deserialize(db'[key]).albums)
             /\ \/ key \in DOMAIN db /\ db'[key] = db[key]
                \/ \E d \in TopDirs :
                      /\ taskPc[d] = "collect" /\ taskPc'[d] = "done"
                      /\ key = as_bytes(normalize_unicode(d))
                      /\ deserialize(db'[key]) \in CompleteRecords(d)]_vars

\* a scan aborted midway left one artist updated and another not
C14_Witness ==
    /\ scanPc = "done" /\ scanRet.tag = "Err"
    /\ \E d \in TopDirs : taskPc[d] = "todo"
    /\ LET rec == get_artist_data(db, <<"K">>)
       IN  /\ rec # None
           /\ rec[1].album_count = 2
           /\ rec[1].last_modified = MaxMtime
    /\ get_artist_data(db, <<"O_uml">>) # None

\* the names of the files (not directories) in or below an entry
RECURSIVE file_names(_)
file_names(entry) ==
    IF entry.is_dir
    THEN UNION {file_names(entry.entries[i]) : i \in 1..Len(entry.entries)}
    ELSE {entry.name}

\* the entry is a directory that holds, at any depth, a file with an audio
\* extension
HoldsAudioFile(entry) ==
    entry.is_dir /\ \E name \in file_names(entry) : is_audio_file(name)

\* C15: after a scan without read errors the record of an artist directory
\* lists exactly the second-level subdirectories that hold, at any depth, a
\* file whose extension is one of mp3, flac, wav, m4a in any letter case.
C15_AlbumDetection ==
    \A d \in TopDirs :
        (scanPc = "done" /\ scanRet = Ok(Unit) /\ fs[d].kind = "dir"
            /\ has_sub_folders(fs[d])) =>
            /\ get_artist_data(db, d) # None
            /\ {get_artist_data(db, d)[1].albums[k][2] :
                   k \in 1..Len(get_artist_data(db, d)[1].albums)}
                 = {join(join(MusicRoot, d), fs[d].subs[i].name) :
                       i \in {k \in 1..Len(fs[d].subs) : HoldsAudioFile(fs[d].subs[k])}}

\* C16: the item whose scp process was waited for is uploaded exactly when the
\* process exited with status zero, and failed otherwise, whatever its stderr
\* held.
C16_OutcomeFollowsExitStatus ==
    (child # None /\ child[1].exited) =>
        LET i == child[1].cmd.item
        IN  /\ child[1].status = Some(0) => itemStatus[i] = "uploaded"
            /\ child[1].status # Some(0) => itemStatus[i] = "failed"

C16_Witness ==
    /\ child # None /\ child[1].exited
    /\ child[1].status = Some(0)
    /\ child[1].lines \in {<<>>, <<NoPercent>>}
    /\ album_progress = 0
    /\ itemStatus[child[1].cmd.item] = "uploaded"
    /\ child[1].cmd.item = 2 /\ itemStatus[1] = "failed"

\* a "[" of s is followed, anywhere after it, by a "]"
HasBracketed(s) == \E i, j \in 1..Len(s) : i < j /\ s[i] = "[" /\ s[j] = "]"

HasSurroundingWhitespace(s) ==
    s # <<>> /\ (is_whitespace(Head(s)) \/ is_whitespace(Last(s)))

\* C17: what clean_album_name returns holds no [..]-bracketed substring and no
\* surrounding whitespace, and cleaning it once more returns it unchanged.
C17_CleanStripsAndIsIdempotent ==
    [][cleanCalls' = cleanCalls + 1 =>
          /\ ~HasBracketed(cleanName')
          /\ ~HasSurroundingWhitespace(cleanName')
          /\ cleanCalls >= 1 => cleanName' = cleanName]_vars

\* C18: in a run, compare_with_api is entered only when process_root has
\* returned and every scan task is done, upload_missing_albums is entered only
\* when compare_with_api has returned, and its input is the list that returned.
C18_StageOrdering ==
    /\ cmpPc # "idle" =>
          /\ scanPc = "done"
          /\ \A d \in TopDirs : taskPc[d] = "done"
    /\ upPc # "idle" =>
          /\ cmpPc = "done"
          /\ cmpRet = Ok(missing_albums)

C18_Witness ==
    /\ runPc = "upload" /\ upPc = "wait"
    /\ Len(missing_albums) = 2
    /\ cmpRet = Ok(missing_albums)
    /\ Cardinality(DOMAIN db) = 2

\* the check of process_artist_folder finds no record, or one older than d
RewriteCase(d) ==
    /\ fs[d].kind = "dir" /\ has_sub_folders(fs[d])
    /\ \/ get_artist_data(db, d) = None
       \/ fs[d].mtime > get_artist_data(db, d)[1].last_modified

\* C19: a task that finds no record, or a record older than its directory,
\* goes on to collect unless a read fails, and a task that returns Ok after
\* collecting leaves under the normalized name exactly the record built from
\* what it collected: that list, its length, and the mtime read at the check.
C19_ScanRewrite ==
    [][\A d \in TopDirs :
          /\ (taskPc[d] = "todo" /\ taskPc'[d] \notin {"todo", "failed"} /\ RewriteCase(d)) =>
                (taskPc'[d] = "collect" /\ taskMtime'[d] = fs[d].mtime /\ db' = db)
          /\ (taskPc[d] = "collect" /\ taskPc'[d] = "done") =>
                /\ get_artist_data(db', d) # None
                /\ get_artist_data(db', d)[1] \in CompleteRecords(d)]_vars

\* a scan wrote the record of a directory changed since the library was set up
C19_Witness ==
    LET d == <<"K">>
        rec == get_artist_data(db, d)
    IN  /\ scanPc = "running" /\ taskPc[d] = "done"
        /\ rec # None
        /\ rec[1].last_modified = MaxMtime
        /\ fs[d].mtime = MaxMtime
        /\ rec[1] = ArtistData(1, MaxMtime, collect_albums(join(MusicRoot, d), d, fs[d].subs))

\* the step is the task of d meeting a failed filesystem read: the stat of the
\* directory, the listing of its subdirectories, or an entry of the walk over
\* its album directories
ReadFails(d) ==
    \/ fs[d].kind = "dir" /\ TaskCheck(d, "read_dir_err")
    \/ fs[d].kind = "dir" /\ has_sub_folders(fs[d]) /\ TaskCheck(d, "stat_err")
    \/ \E db_ok \in BOOLEAN :
          \E yielded \in (SUBSET (1..Len(fs[d].subs))) \ {1..Len(fs[d].subs)} :
             TaskStore(d, yielded, db_ok)

\* C20: a task that meets a failed filesystem read while it traverses its
\* artist returns an error, which process_root then returns, and writes no
\* record.
C20_ScanFailFast ==
    [][\A d \in TopDirs :
          ReadFails(d) => (taskPc'[d] = "failed" /\ scanFailed' /\ db' = db)]_vars

\* the entries of a collected list that no later entry of the same cleaned name
\* follows
LastMet(collected) ==
    {collected[k] : k \in {k \in 1..Len(collected) :
                              \A m \in (k + 1)..Len(collected) :
                                 collected[m][1] # collected[k][1]}}

\* C21: when two album directories of one artist clean to the same name, the
\* record a scan task writes holds one entry for that name, that of the
\* directory met last in walk order, and album_count counts the name once.
C21_CollisionLastWins ==
    [][\A d \in TopDirs :
          (taskPc[d] = "collect" /\ taskPc'[d] = "done") =>
             LET rec == get_artist_data(db', d)[1]
             IN  /\ \A i, j \in 1..Len(rec.albums) :
                        rec.albums[i][1] = rec.albums[j][1] => i = j
                 /\ rec.album_count = Cardinality({rec.albums[i][1] : i \in 1..Len(rec.albums)})
                 /\ \E yielded \in SUBSET (1..Len(fs[d].subs)) :
                       Range(rec.albums) =
                           LastMet(collect_albums(join(MusicRoot, d), d,
                                                  walk_entries(fs[d].subs, yielded, 1)))]_vars

\* the getArtist call logged in e returned an error to process_artist
ListAlbumsFailed(e) == e.called /\ e.resp.kind = "transport_err"

\* C22: when the getArtist call of some artist fails, compare_with_api has
\* returned that error instead of a path list, and the failing artist is the
\* last one processed: the artists after it stay unvisited.
C22_ListAlbumsErrorPropagates ==
    \A i \in DOMAIN cmpLog :
        ListAlbumsFailed(cmpLog[i]) =>
            /\ i = Len(cmpLog)
            /\ cmpPc = "done"
            /\ cmpRet = Err(ReqwestError)
            /\ Len(artists) = Len(remote) - Len(cmpLog) + 1
            /\ Head(artists) = cmpLog[i].artist

\* the second of three artists fails after the first contributed a path
C22_Witness ==
    /\ Len(cmpLog) = 2 /\ ListAlbumsFailed(cmpLog[2])
    /\ all_missing_album_paths # <<>>
    /\ Len(remote) = 3 /\ Len(artists) = 2
    /\ cmpRet = Err(ReqwestError)

\* C23: no step of a scan, a reconciliation or an upload, over any sequence
\* of runs, removes a key from the store, also when the artist directory is
\* gone or has no subdirectory any more.
C23_RecordsNeverDeleted ==
    [][DOMAIN db \subseteq DOMAIN db']_vars

\* a run with an upload has ended after both artist directories of the store's
\* records were removed or emptied
C23_Witness ==
    /\ runPc = "done" /\ scanRet = Ok(Unit) /\ upPc = "done"
    /\ fs[<<"K">>] = NoSubFolders
    /\ fs[<<"O_uml">>] = Absent /\ fs[<<"o", "uml">>] = Absent
    /\ get_artist_data(db, <<"K">>) # None
    /\ get_artist_data(db, <<"O_uml">>) # None

\* d is a directory none of whose entries is a directory
ZeroSubdirectories(d) ==
    /\ fs[d].kind = "dir"
    /\ \A i \in 1..Len(fs[d].subs) : ~fs[d].subs[i].is_dir

InFlight == child # None /\ ~child[1].exited

\* the outcome of item i has been recorded
Recorded(i) == itemStatus[i] # "pending"

\* C25: the only transfer in flight is that of the current item, while the
\* outcomes of exactly the items before it are recorded; and scp is spawned
\* for an item only when no transfer is in flight, every earlier item has its
\* outcome recorded, and the item follows all those spawned before in input
\* order.
C25_OneAtATime ==
    [][/\ InFlight' =>
             /\ upPc' = "wait"
             /\ child'[1].cmd.item = upIdx'
             /\ \A i \in DOMAIN itemStatus' : Recorded(i)' <=> i < upIdx'
       /\ (upPc = "loop" /\ scpLog' # scpLog) =>
             /\ ~InFlight
             /\ Len(scpLog') = Len(scpLog) + 1
             /\ LET cmd == Last(scpLog')
                IN  /\ cmd.item = upIdx
                    /\ cmd.src = missing_albums[cmd.item]
                    /\ \A i \in 1..(cmd.item - 1) : Recorded(i)
                    /\ \A k \in DOMAIN scpLog : scpLog[k].item < cmd.item]_vars

\* the third transfer is in flight after the first failed and the second
\* succeeded
C25_Witness ==
    /\ InFlight /\ upIdx = 3 /\ Len(scpLog) = 3
    /\ itemStatus[1] = "failed" /\ itemStatus[2] = "uploaded" /\ itemStatus[3] = "pending"
    /\ child[1].cmd.src = missing_albums[3]

\* the store the tasks of dirs leave when each runs to its end before the next
\* starts
RECURSIVE scan_in_order(_, _, _)
scan_in_order(d, tree, dirs) ==
    IF dirs = <<>> THEN d
    ELSE LET dir == Head(dirs)
             stored_data == get_artist_data(d, normalize_unicode(dir))
             albums == collect_albums(join(MusicRoot, dir), dir, tree[dir].subs)
         IN  IF /\ tree[dir].kind = "dir" /\ has_sub_folders(tree[dir])
                /\ ~(stored_data # None /\ tree[dir].mtime <= stored_data[1].last_modified)
             THEN scan_in_order(store_artist_data(d, normalize_unicode(dir), Len(albums),
                                                  tree[dir].mtime, albums),
                                tree, Tail(dirs))
             ELSE scan_in_order(d, tree, Tail(dirs))

\* C26: when process_root has returned Ok on a library scanned into an empty
\* store, the store holds what the tasks leave when run one after the other,
\* whatever the interleaving of the tasks was.
C26_ScanDeterministic ==
    (scanPc = "done" /\ scanRet = Ok(Unit)) =>
        db = scan_in_order(EmptyDb, fs, <<<<"O_uml">>, <<"o", "uml">>, <<"K">>>>)

\* C27: no step lowers the last_modified stored under a key.
C27_LastModifiedMonotone ==
    [][\A k \in DOMAIN db :
          k \in DOMAIN db' =>
             deserialize(db'[k]).last_modified >= deserialize(db[k]).last_modified]_vars

\* C28: while process_root runs on a library on which it has returned Ok
\* since the library last changed, no step changes the store.
C28_RescanWritesNothing ==
    [][(scannedOk /\ scanPc = "running") => db' = db]_vars

\* C29: once process_root has returned an error, compare_with_api and
\* upload_missing_albums are never entered; once compare_with_api has returned
\* an error, upload_missing_albums is never entered and no scp is spawned,
\* whatever paths were accumulated; and start_sync then returns Ok.
C29_FailedStageStopsRun ==
    /\ (scanPc = "done" /\ scanRet.tag = "Err") =>
          /\ cmpPc = "idle" /\ cmpLog = <<>> /\ indexResponse = NoResponse
          /\ upPc = "idle" /\ scpLog = <<>>
          /\ runPc = "done" => runRet = Ok(Unit)
    /\ (cmpPc = "done" /\ cmpRet.tag = "Err") =>
          /\ upPc = "idle" /\ scpLog = <<>> /\ child = None
          /\ runPc = "done" => runRet = Ok(Unit)

\* the run has ended after reconciliation failed on its second artist, the
\* first having yielded a path
C29_Witness ==
    /\ runPc = "done" /\ runRet = Ok(Unit)
    /\ cmpRet = Err(ReqwestError)
    /\ Len(cmpLog) = 2 /\ all_missing_album_paths # <<>>
    /\ upPc = "idle"

\* the path has a parent with a file name and a non-empty last component
WellShaped(album_path) == extract_artist_and_album(album_path).ok

\* C30: when upload_missing_albums has returned, it returned Ok(()) if every
\* input path is well-shaped, however many transfers failed, and otherwise an
\* error raised at a malformed path.
C30_UploadOkDespiteFailures ==
    upPc = "done" =>
        IF \A i \in DOMAIN missing_albums : WellShaped(missing_albums[i])
        THEN upRet = Ok(Unit)
        ELSE /\ upRet.tag = "Err"
             /\ ~WellShaped(missing_albums[upIdx])

\* upload_missing_albums returned Ok after every one of three transfers failed
C30_Witness ==
    /\ upPc = "done" /\ upRet = Ok(Unit)
    /\ Len(missing_albums) = MaxItems
    /\ \A i \in DOMAIN itemStatus : itemStatus[i] = "failed"
    /\ overall_progress = 0

\* C31: every step of compare_with_api and of upload_missing_albums, from
\* their call to their return, leaves the store as it was.
C31_CompareUploadReadOnly ==
    [][(cmpVars' # cmpVars \/ upVars' # upVars) => db' = db]_vars

\* a run has ended with the store as the scan left it, after a reconciliation
\* that met an album the library lacks and an artist the store lacks, and
\* uploads of which one failed and one succeeded
C31_Witness ==
    /\ runPc = "done" /\ upPc = "done" /\ cmpRet.tag = "Ok"
    /\ db # EmptyDb
    /\ db = scan_in_order(EmptyDb, fs, <<<<"O_uml">>, <<"o", "uml">>, <<"K">>>>)
    /\ \E i \in DOMAIN cmpLog :
          /\ cmpLog[i].called
          /\ CleanedNames(cmpLog[i].resp.names) \ LocalNames(LocalRecord(cmpLog[i].artist)[1]) # {}
    /\ \E i \in 1..Len(remote) : LocalRecord(remote[i]) = None
    /\ \E i, j \in DOMAIN itemStatus : itemStatus[i] = "failed" /\ itemStatus[j] = "uploaded"

====
